---- MODULE Spec2Model ----
(***************************************************************************)
(* Download queue of romulator: the shared room (sharedRoomData), the      *)
(* RoomDownloadProcessor worker and the request handlers that mutate the   *)
(* room, as written in the server revision that holds the processor.       *)
(*                                                                         *)
(* One action is one JavaScript task: a request handler, a socket handler  *)
(* or the continuation of the worker after an await on real I/O.  Code     *)
(* that runs without yielding to the event loop (synchronous code and      *)
(* continuations of already settled promises) belongs to the action that   *)
(* started it.  A handler is an operator from the state to the state it    *)
(* leaves and the HTTP status it answers with.                             *)
(***************************************************************************)
EXTENDS Integers, Sequences, FiniteSets, TLC

\* ---------------------------------------------------------------- bounds
Names == {"a", "b"}
LegacyNames == {"b"}
MaxQueue == 2
MaxSel == 2
MaxHist == 1
MaxRuns == 2
MaxRestarts == 1
MaxStatusLen == 3
MaxChunk == 2
MaxBody == 3
MaxHops == 12

Rulesets == {"none", "rs1"}
NoName == "null"
Ids == 1..(2 * MaxQueue + MaxSel + 2)

ActiveStatuses == {"available", "downloading", "pending"}
RetryableStatuses == {"failed", "error", "needs-rescrape"}

\* ------------------------------------------------------------- variables
VARIABLES
    room,          \* sharedRoomData
    oldRoom,       \* the room object a run still holds after loadSessions replaced sharedRoomData
    isProcessing,  \* downloadProcessor.isProcessing
    downloader,    \* downloadProcessor.downloader: none / uninit (page null) / blank / listing
    runs,          \* the startProcessing calls that have not returned
    boot,          \* startup and shutdown: whether loadSessions is still pending, the
                   \* session file, and whether the SIGINT handler awaits shutdown()
    restarts,      \* number of process restarts so far
    view,          \* the last room snapshot a client read: the event that carried it,
                   \* the status in it, and the status derived from its roms
    xfer,          \* one HTTP transfer: its requests, its file, its promise and the
                   \* last progress sample it gave to progressCallback
    published      \* the roomUpdate events sent to the shared room: the last one the
                   \* subscribers had received, then those of the latest task, in order

vars == <<room, oldRoom, isProcessing, downloader, runs, boot, restarts, view, xfer, published>>

\* ------------------------------------------------------------ room data
\* lastActivity is kept as its age: "old" once more than oneHour has passed
\* since it was written
EmptyRoom == [roms |-> <<>>, currentRom |-> NoName, ruleset |-> "none", downloadHistory |-> <<>>,
              lastActivity |-> "fresh"]

RECURSIVE FindIndexFrom(_, _, _)
FindIndexFrom(roms, name, k) ==
    IF k > Len(roms) THEN 0
    ELSE IF roms[k].name = name THEN k
    ELSE FindIndexFrom(roms, name, k + 1)

\* roms.findIndex(r => r.name === name); 0 stands for -1
FindIndex(roms, name) == FindIndexFrom(roms, name, 1)

RECURSIVE FilterStatus(_, _)
FilterStatus(roms, S) ==
    IF roms = <<>> THEN <<>>
    ELSE IF Head(roms).status \in S THEN <<Head(roms)>> \o FilterStatus(Tail(roms), S)
    ELSE FilterStatus(Tail(roms), S)

SomeStatus(roms, S) == \E k \in 1..Len(roms) : roms[k].status \in S

RemoveAt(s, k) == [j \in 1..(Len(s) - 1) |-> IF j < k THEN s[j] ELSE s[j + 1]]

\* Object identity.  A run holds references to rom objects and writes a
\* resolved downloadUrl into the object it holds.  Only an object without a
\* downloadUrl can be written to, so an object carries an id (the least
\* unused one) while it has no downloadUrl and a run holds it, and id 0
\* otherwise.
Ref(e) == [id |-> e.id, name |-> e.name, url |-> e.url]
Refs(roms) == [k \in 1..Len(roms) |-> Ref(roms[k])]

IdsOfRoms(roms) == {roms[k].id : k \in 1..Len(roms)} \ {0}
IdsOfRuns(rs) == UNION {IdsOfRoms(rs[j].avail) : j \in 1..Len(rs)}
UsedIds == IdsOfRoms(room.roms) \cup IdsOfRoms(oldRoom.roms) \cup IdsOfRuns(runs)

MinId(used) == CHOOSE x \in Ids \ used : \A y \in Ids \ used : x <= y

RECURSIVE HoldAvailable(_, _)
HoldAvailable(roms, used) ==
    IF roms = <<>> THEN <<>>
    ELSE IF Head(roms).status = "available" /\ ~Head(roms).url /\ Head(roms).id = 0
         THEN <<[Head(roms) EXCEPT !.id = MinId(used)]>>
              \o HoldAvailable(Tail(roms), used \cup {MinId(used)})
         ELSE <<Head(roms)>> \o HoldAvailable(Tail(roms), used)

\* the ids in `ids` are no longer held by any run
Release(roms, ids) ==
    [k \in 1..Len(roms) |-> IF roms[k].id \in ids THEN [roms[k] EXCEPT !.id = 0] ELSE roms[k]]

StripIds(roms) == [k \in 1..Len(roms) |-> [roms[k] EXCEPT !.id = 0]]

\* computeRoomStatus that forgets the 'pending' roms
computeRoomStatusNoPending(r) ==
    IF Len(r.roms) = 0 THEN "idle"
    ELSE IF SomeStatus(r.roms, {"downloading"}) THEN "downloading"
    ELSE IF SomeStatus(r.roms, {"available"}) THEN "ready"
    ELSE "complete"

\* computeRoomStatus
computeRoomStatus(r) ==
    IF Len(r.roms) = 0 THEN "idle"
    ELSE IF SomeStatus(r.roms, {"downloading"}) THEN "downloading"
    ELSE IF SomeStatus(r.roms, {"available"}) \/ SomeStatus(r.roms, {"pending"}) THEN "ready"
    ELSE "complete"

\* what a client sees of the Items
Items(roms) == [k \in 1..Len(roms) |-> [name |-> roms[k].name, status |-> roms[k].status]]
ItemNames(roms) == [k \in 1..Len(roms) |-> roms[k].name]

\* io.to(SHARED_ROOM_ID).emit('roomUpdate', getEnhancedRoomData(roomData)),
\* followed by the events `out` sent
After(r, out) == [out EXCEPT !.sent = <<Items(r.roms)>> \o @]

\* nothing was sent to the subscribers of this process yet
NoBroadcast == <<Items(<<>>)>>

\* the subscribers' last event, then the events a task sent
Publish(sent) == <<published[Len(published)]>> \o sent

\* no snapshot read yet
NoView == [event |-> "none", status |-> "none", derived |-> "none"]

\* ------------------------------------------------------------ the worker
\* A run is a call of startProcessing that has not returned: where it
\* awaits (pc), the roms of availableRoms it has not finished with (the one
\* in hand first), and the romIndex and ruleset processDownloadItem read.
DoneRun == [pc |-> "done", avail |-> <<>>, romIndex |-> 0, ruleset |-> "none", old |-> FALSE]

\* the error messages of the downloader and the runtime, by the substrings
\* handleDownloadError looks for
ErrUrl == [downloadUrl |-> TRUE, rescrape |-> TRUE, kind |-> "url"]
ErrOther == [downloadUrl |-> FALSE, rescrape |-> FALSE, kind |-> "other"]
ErrType == [downloadUrl |-> FALSE, rescrape |-> FALSE, kind |-> "type"]

\* a failure whose message quotes the rom's name, for a rom whose name
\* contains 're-scrape'
ErrNamed == [downloadUrl |-> FALSE, rescrape |-> TRUE, kind |-> "named"]

\* the same for a name that contains 'downloadUrl'
ErrNamedUrl == [downloadUrl |-> TRUE, rescrape |-> FALSE, kind |-> "named"]

ErrorMessages == {ErrUrl, ErrOther, ErrType, ErrNamed, ErrNamedUrl}

\* roomData.downloadHistory.push(entry).  The server only appends to the
\* history and clears it; the model keeps the newest MaxHist entries.
Push(h, entry) ==
    IF MaxHist = 0 THEN h
    ELSE IF Len(h) < MaxHist THEN Append(h, entry)
    ELSE Append(Tail(h), entry)

\* handleDownloadError that does not classify the error
handleDownloadErrorUnclassified(r, rom, error) ==
    LET romIndex == FindIndex(r.roms, rom.name)
        roms1 == IF romIndex # 0 THEN [r.roms EXCEPT ![romIndex].status = "failed"] ELSE r.roms
        entry == [name |-> rom.name, status |-> "failed", error |-> error.kind, org |-> "none"]
    IN [r EXCEPT !.roms = roms1,
                 !.downloadHistory = Push(@, entry),
                 !.currentRom = NoName,
                 !.lastActivity = "fresh"]

\* handleDownloadError(rom, error, roomData)
handleDownloadError(r, rom, error) ==
    LET romIndex == FindIndex(r.roms, rom.name)
        st == IF error.downloadUrl \/ error.rescrape THEN "needs-rescrape" ELSE "failed"
        roms1 == IF romIndex # 0 THEN [r.roms EXCEPT ![romIndex].status = st] ELSE r.roms
        entry == [name |-> rom.name,
                  status |-> IF error.downloadUrl THEN "needs-rescrape" ELSE "failed",
                  error |-> error.kind,
                  org |-> "none"]
    IN [r EXCEPT !.roms = roms1,
                 !.downloadHistory = Push(@, entry),
                 !.currentRom = NoName,
                 !.lastActivity = "fresh"]

\* the run lets go of the rom in hand
Advance(run) == [run EXCEPT !.avail = Tail(@), !.romIndex = 0, !.ruleset = "none"]
Drop(r, run, keep) == [r EXCEPT !.roms = Release(@, {Head(run.avail).id} \ keep)]

\* startProcessing from the head of the for loop up to the next await on
\* real I/O, or to the end of the run.  keep: the ids other runs hold.
RECURSIVE ProcessLoop(_, _, _, _)
ProcessLoop(r, d, run, keep) ==
    IF run.avail = <<>>
    THEN [room |-> r, run |-> [DoneRun EXCEPT !.old = run.old], sent |-> <<>>]
    ELSE
        LET rom == Head(run.avail)
            romIndex == FindIndex(r.roms, rom.name)
        IN IF romIndex = 0 \/ r.roms[romIndex].status # "available"
           THEN ProcessLoop(Drop(r, run, keep), d, Advance(run), keep)
           ELSE
             \* processDownloadItem up to the call of downloadSingleRom
             LET r1 == [r EXCEPT !.currentRom = rom.name,
                                 !.lastActivity = "fresh",
                                 !.roms[romIndex].status = "downloading"]
                 run1 == [run EXCEPT !.romIndex = romIndex, !.ruleset = r.ruleset]
                 noUrl == handleDownloadError(r1, rom, ErrUrl)
                 noPage == handleDownloadError(r1, rom, ErrOther)
             IN After(r1,
                  IF ~rom.url
                  THEN IF d = "listing"
                       THEN [room |-> r1, run |-> [run1 EXCEPT !.pc = "resolve"], sent |-> <<>>]
                       ELSE After(noUrl, ProcessLoop(Drop(noUrl, run, keep), d, Advance(run1), keep))
                  ELSE IF d = "uninit"
                       THEN After(noPage, ProcessLoop(Drop(noPage, run, keep), d, Advance(run1), keep))
                       ELSE [room |-> r1, run |-> [run1 EXCEPT !.pc = "transfer"], sent |-> <<>>])

\* the roomUpdate that ends processDownloadItem or handleDownloadError, and
\* the loop after it
Continue(r, d, run, keep) ==
    After(r, ProcessLoop(Drop(r, run, keep), d, Advance(run), keep))

\* startProcessing(roomData) up to its first await on real I/O.
\* st: the room, the processor fields and the unfinished runs.
startProcessing(st, used) ==
    LET r == [st.room EXCEPT !.roms = HoldAvailable(@, used)]
        availableRoms == Refs(FilterStatus(r.roms, {"available"}))
        run0 == [pc |-> "init", avail |-> availableRoms,
                 romIndex |-> 0, ruleset |-> "none", old |-> FALSE]
    IN IF st.isProcessing THEN st
       ELSE IF Len(availableRoms) = 0 THEN st
       ELSE IF st.downloader = "none"
            THEN [st EXCEPT !.room = r, !.isProcessing = TRUE, !.downloader = "uninit",
                            !.runs = Append(@, run0)]
            ELSE LET out == ProcessLoop(r, st.downloader, run0, IdsOfRuns(st.runs))
                 IN [st EXCEPT !.room = out.room,
                               !.sent = @ \o out.sent,
                               !.isProcessing = (out.run.pc # "done"),
                               !.runs = IF out.run.pc = "done" THEN @ ELSE Append(@, out.run)]

\* the state a handler works on, and the state it leaves
Now == [room |-> room, isProcessing |-> isProcessing, downloader |-> downloader,
        runs |-> runs, code |-> 0, sent |-> <<>>]

\* ------------------------------------------------------- request handlers
\* the catalog entries a client can select: every name with its downloadUrl,
\* and the names of LegacyNames also without one
Catalog == [name : Names, url : {TRUE}] \cup [name : LegacyNames, url : {FALSE}]
Selections == UNION {[1..n -> Catalog] : n \in 1..MaxSel}

\* activeRomNames that leaves out the roms waiting in the queue
ActiveRomNamesDownloadingOnly(roms) ==
    {roms[k].name : k \in {x \in 1..Len(roms) : roms[x].status = "downloading"}}

ActiveRomNames(roms) ==
    {roms[k].name : k \in {x \in 1..Len(roms) : roms[x].status \in ActiveStatuses}}

RECURSIVE FilterNew(_, _)
FilterNew(sel, activeRomNames) ==
    IF sel = <<>> THEN <<>>
    ELSE IF Head(sel).name \in activeRomNames THEN FilterNew(Tail(sel), activeRomNames)
    ELSE <<Head(sel)>> \o FilterNew(Tail(sel), activeRomNames)

RomsToAdd(roms, sel) ==
    LET new == FilterNew(sel, ActiveRomNames(roms))
    IN [k \in 1..Len(new) |->
          [id |-> 0, name |-> new[k].name, url |-> new[k].url, status |-> "available"]]

\* io.to(userRoomId).emit('roomUpdate', ...) at the end of a request handler
Emit(st) == [st EXCEPT !.sent = Append(@, Items(st.room.roms))]

\* POST /api/download with a valid body
enqueue(st, used, sel, ruleset) ==
    LET romsToAdd == RomsToAdd(st.room.roms, sel)
        r1 == [st.room EXCEPT !.currentRom = NoName, !.ruleset = ruleset,
                              !.lastActivity = "fresh",
                              !.roms = @ \o romsToAdd]
        st1 == [st EXCEPT !.room = r1, !.code = 200]
    IN Emit(IF Len(romsToAdd) > 0 THEN startProcessing(st1, used) ELSE st1)

\* retry without the check of the rom's status
retryAnyStatus(st, used, romName) ==
    LET romIndex == FindIndex(st.room.roms, romName)
    IN IF romIndex = 0 THEN [st EXCEPT !.code = 404]
       ELSE Emit(startProcessing([st EXCEPT !.room.roms[romIndex].status = "available",
                                            !.room.lastActivity = "fresh",
                                            !.code = 200], used))

\* POST /api/rom/:romName/retry
retry(st, used, romName) ==
    LET romIndex == FindIndex(st.room.roms, romName)
    IN IF romIndex = 0 THEN [st EXCEPT !.code = 404]
       ELSE IF st.room.roms[romIndex].status \notin RetryableStatuses
       THEN [st EXCEPT !.code = 400]
       ELSE Emit(startProcessing([st EXCEPT !.room.roms[romIndex].status = "available",
                                            !.room.lastActivity = "fresh",
                                            !.code = 200], used))

\* removal without the check of the rom's status
removeAnyStatus(st, romName) ==
    LET romIndex == FindIndex(st.room.roms, romName)
    IN IF romIndex = 0 THEN [st EXCEPT !.code = 404]
       ELSE Emit([st EXCEPT !.room.roms = RemoveAt(@, romIndex),
                            !.room.lastActivity = "fresh", !.code = 200])

\* DELETE /api/rom/:romName
remove(st, romName) ==
    LET romIndex == FindIndex(st.room.roms, romName)
    IN IF romIndex = 0 THEN [st EXCEPT !.code = 404]
       ELSE IF st.room.roms[romIndex].status = "downloading" THEN [st EXCEPT !.code = 400]
       ELSE Emit([st EXCEPT !.room.roms = RemoveAt(@, romIndex),
                            !.room.lastActivity = "fresh", !.code = 200])

\* restartDownload(userRoomId, roomData)
restartDownload(st, used) ==
    LET roms == st.room.roms
        romsToDownload == FilterStatus(roms, {"downloading", "pending", "available"})
        roms1 == [k \in 1..Len(roms) |->
                    IF roms[k].status \in {"downloading", "pending"}
                    THEN [roms[k] EXCEPT !.status = "available"]
                    ELSE roms[k]]
    IN IF Len(romsToDownload) = 0 THEN st
       ELSE startProcessing([st EXCEPT !.room.roms = roms1], used)

\* roomData.status: sharedRoomData is created without a status field, no
\* statement that runs stores one, and saveSessions writes what is there
storedStatus(r) == "undefined"

\* the room after the session data was cleared for inactivity
ClearedRoom == [roms |-> <<>>, currentRom |-> NoName, ruleset |-> "none",
                downloadHistory |-> <<>>, lastActivity |-> "fresh"]

\* socket.on('joinUserRoom'): updateLastActivity, the inactivity check, then
\* the restart of the downloads the room shows as active
joinUserRoom(st, used) ==
    LET st1 == [st EXCEPT !.room.lastActivity = "fresh"]
        st2 == IF st1.room.lastActivity = "old" /\ storedStatus(st1.room) # "downloading"
               THEN [st1 EXCEPT !.room = ClearedRoom]
               ELSE st1
    IN IF computeRoomStatus(st2.room) \in {"downloading", "ready"}
       THEN restartDownload(st2, used)
       ELSE st2

\* a handler's step: at most MaxRuns unfinished runs
Leave(out) ==
    /\ Len(out.runs) <= MaxRuns
    /\ room' = out.room
    /\ isProcessing' = out.isProcessing
    /\ downloader' = out.downloader
    /\ runs' = out.runs
    /\ published' = Publish(out.sent)
    /\ UNCHANGED <<oldRoom, boot, restarts, view, xfer>>

\* a handler's step seen by the client it answers
LeaveSeen(out, v) ==
    /\ Len(out.runs) <= MaxRuns
    /\ room' = out.room
    /\ isProcessing' = out.isProcessing
    /\ downloader' = out.downloader
    /\ runs' = out.runs
    /\ view' = v
    /\ published' = Publish(out.sent)
    /\ UNCHANGED <<oldRoom, boot, restarts, xfer>>

Enqueue(sel, ruleset) ==
    /\ Len(room.roms) + Len(RomsToAdd(room.roms, sel)) <= MaxQueue
    /\ Leave(enqueue(Now, UsedIds, sel, ruleset))

Retry(romName) ==
    /\ romName \in Names
    /\ Leave(retry(Now, UsedIds, romName))

Remove(romName) ==
    /\ romName \in Names
    /\ Leave(remove(Now, romName))

JoinUserRoom ==
    /\ ~boot.loading
    /\ Leave(joinUserRoom(Now, UsedIds))

\* ----------------------------------------------------------- worker steps
\* the roomData object a run was started with
RoomOf(run) == IF run.old THEN oldRoom ELSE room

OtherIds(j) == UNION {IdsOfRoms(runs[k].avail) : k \in (1..Len(runs)) \ {j}}

\* Commit without the finally block of startProcessing
CommitNoFinally(j, out, d) ==
    LET done == out.run.pc = "done"
        rs1 == IF done THEN RemoveAt(runs, j) ELSE [runs EXCEPT ![j] = out.run]
    IN /\ runs' = rs1
       /\ downloader' = d
       /\ room' = out.room
       /\ published' = Publish(out.sent)
       /\ UNCHANGED <<isProcessing, oldRoom, boot, restarts, view, xfer>>

\* write back what a task of run j did
Commit(j, out, d) ==
    LET done == out.run.pc = "done"
        rs1 == IF done THEN RemoveAt(runs, j) ELSE [runs EXCEPT ![j] = out.run]
        stillOld == \E k \in 1..Len(rs1) : rs1[k].old
    IN /\ runs' = rs1
       /\ isProcessing' = IF done THEN FALSE ELSE isProcessing
       /\ downloader' = d
       /\ IF runs[j].old
          THEN /\ room' = room
               /\ oldRoom' = IF stillOld THEN out.room ELSE EmptyRoom
          ELSE /\ room' = out.room
               /\ UNCHANGED oldRoom
       /\ published' = Publish(out.sent)
       /\ UNCHANGED <<boot, restarts, view, xfer>>

\* await this.downloader.init() settles
InitDone(j, ok) ==
    /\ j \in 1..Len(runs)
    /\ runs[j].pc = "init"
    /\ LET run == runs[j]
           r == RoomOf(run)
       IN IF ok
          THEN Commit(j, ProcessLoop(r, "blank", run, OtherIds(j)), "blank")
          ELSE Commit(j, [room |-> [r EXCEPT !.roms = Release(@, IdsOfRoms(run.avail) \ OtherIds(j))],
                          run |-> [DoneRun EXCEPT !.old = run.old], sent |-> <<>>],
                      downloader)

\* rom.downloadUrl = href, on the rom object the run holds
SetUrl(roms, id) ==
    [k \in 1..Len(roms) |->
       IF roms[k].id = id THEN [roms[k] EXCEPT !.url = TRUE, !.id = 0] ELSE roms[k]]

\* downloadSingleRom: the lookup of the link on the current page settles
ResolveDone(j, found) ==
    /\ j \in 1..Len(runs)
    /\ runs[j].pc = "resolve"
    /\ LET run == runs[j]
           r == RoomOf(run)
           rom == Head(run.avail)
       IN IF found
          THEN Commit(j, [room |-> [r EXCEPT !.roms = SetUrl(@, rom.id)],
                          run |-> [run EXCEPT !.pc = "transfer",
                                              !.avail[1] = [rom EXCEPT !.url = TRUE, !.id = 0]],
                          sent |-> <<>>],
                      downloader)
          ELSE Commit(j, Continue(handleDownloadError(r, rom, ErrUrl), downloader, run, OtherIds(j)),
                      downloader)

\* processDownloadItem in which an error of the organizer is not caught
SuccessOrganizerEscalates(r, run, org) ==
    LET rom == Head(run.avail)
    IN IF run.romIndex > Len(r.roms) \/ org = "err"
       THEN handleDownloadError(r, rom, ErrOther)
       ELSE [r EXCEPT !.roms[run.romIndex].status = "success",
                      !.downloadHistory = Push(@, [name |-> rom.name, status |-> "success",
                                                   error |-> "none", org |-> org]),
                      !.currentRom = NoName,
                      !.lastActivity = "fresh"]

\* processDownloadItem after the download and the organizer
Success(r, run, org) ==
    LET rom == Head(run.avail)
    IN IF run.romIndex > Len(r.roms)
       THEN handleDownloadError(r, rom, ErrType)
       ELSE [r EXCEPT !.roms[run.romIndex].status = "success",
                      !.downloadHistory = Push(@, [name |-> rom.name, status |-> "success",
                                                   error |-> "none", org |-> org]),
                      !.currentRom = NoName,
                      !.lastActivity = "fresh"]

\* await this.downloader.downloadSingleRom(rom) settles.  page: where the
\* browser page is afterwards; a download that succeeded went through
\* page.goto(parentUrl), the listing the rom was selected from.
TransferDone(j, ok, page) ==
    /\ j \in 1..Len(runs)
    /\ runs[j].pc = "transfer"
    /\ page \in {downloader, "listing"}
    /\ ok => page = "listing"
    /\ LET run == runs[j]
           r == RoomOf(run)
           rom == Head(run.avail)
       IN IF ~ok
          THEN Commit(j, Continue(handleDownloadError(r, rom, ErrOther), page, run, OtherIds(j)), page)
          ELSE IF run.ruleset # "none"
          THEN Commit(j, [room |-> r, run |-> [run EXCEPT !.pc = "organize"], sent |-> <<>>], page)
          ELSE Commit(j, Continue(Success(r, run, "none"), page, run, OtherIds(j)), page)

\* await organizer.applyRuleset(ruleset, filepath) settles
OrganizeDone(j, ok) ==
    /\ j \in 1..Len(runs)
    /\ runs[j].pc = "organize"
    /\ LET run == runs[j]
           r == RoomOf(run)
       IN Commit(j, Continue(Success(r, run, IF ok THEN "ok" ELSE "err"), downloader, run, OtherIds(j)), downloader)

\* ------------------------------------------------------ restart and load
\* SIGTERM / SIGINT (saveSessions, exit) and the start of a new process
Restart ==
    /\ restarts < MaxRestarts
    /\ ~boot.loading /\ ~boot.stopping
    /\ Len(room.roms) > 0
    /\ restarts' = restarts + 1
    /\ boot' = [loading |-> TRUE, file |-> TRUE, stopping |-> FALSE,
                disk |-> [room EXCEPT !.roms = StripIds(@)]]
    /\ room' = EmptyRoom
    /\ oldRoom' = EmptyRoom
    /\ isProcessing' = FALSE
    /\ downloader' = "none"
    /\ runs' = <<>>
    /\ published' = NoBroadcast
    /\ UNCHANGED <<view, xfer>>

\* the roms of the session file as loadSessions leaves them
LoadedRoms(roms) ==
    [k \in 1..Len(roms) |->
       [roms[k] EXCEPT !.status = IF ~roms[k].url /\ @ = "available"
                                  THEN "needs-rescrape" ELSE @]]

\* loadSessions() settles
LoadSessions ==
    /\ boot.loading
    /\ boot' = [loading |-> FALSE, file |-> boot.file, stopping |-> FALSE, disk |-> EmptyRoom]
    /\ IF boot.file
       THEN /\ room' = [boot.disk EXCEPT !.roms = LoadedRoms(@)]
            /\ oldRoom' = IF Len(runs) > 0 THEN room ELSE EmptyRoom
            /\ runs' = [j \in 1..Len(runs) |-> [runs[j] EXCEPT !.old = TRUE]]
       ELSE UNCHANGED <<room, oldRoom, runs>>
    /\ UNCHANGED <<isProcessing, downloader, restarts, view, xfer, published>>

\* the process exits after saveSessions, and the next process has loaded
\* the session file before its first request arrives
NextProcess ==
    /\ restarts' = restarts + 1
    /\ room' = [room EXCEPT !.roms = LoadedRoms(StripIds(@))]
    /\ oldRoom' = EmptyRoom
    /\ isProcessing' = FALSE
    /\ downloader' = "none"
    /\ runs' = <<>>
    /\ boot' = [boot EXCEPT !.stopping = FALSE]
    /\ published' = NoBroadcast
    /\ UNCHANGED <<view, xfer>>

\* process.on('SIGTERM'): saveSessions, exit
Sigterm ==
    /\ restarts < MaxRestarts
    /\ ~boot.loading /\ ~boot.stopping
    /\ Len(room.roms) > 0
    /\ NextProcess

\* process.on('SIGINT'), received while the browser is up, to its await of
\* downloadProcessor.shutdown(), which clears isProcessing and awaits the
\* downloader's close
Sigint ==
    /\ restarts < MaxRestarts
    /\ ~boot.loading /\ ~boot.stopping
    /\ downloader \in {"blank", "listing"}
    /\ isProcessing' = FALSE
    /\ boot' = [boot EXCEPT !.stopping = TRUE]
    /\ UNCHANGED <<room, oldRoom, downloader, runs, restarts, view, xfer, published>>

\* process.on('SIGINT') after shutdown() settled: saveSessions, exit
ShutdownDone ==
    /\ boot.stopping
    /\ NextProcess

\* ------------------------------------------------------------ the Transfer
\* CurlDownloader.curlStyleDownload (impl "curl") and
\* RomDownloader.downloadSingleRomHTTP (impl "http"): one call, from its
\* first request to the last event of its streams.
Hosts == {"h1", "h2"}
Paths == {"/a", "/b"}
Urls == [host : Hosts, path : Paths]

\* the Location header of a redirect: an absolute URL, or a path relative to
\* the URL that was requested
Locations == [kind : {"abs"}, host : Hosts, path : Paths]
                \cup [kind : {"rel"}, host : {"-"}, path : Paths]

\* the Content-Length a response can carry; 0: no such header
ContentLengths == {0, 2, 250}

\* if (redirectCount > 10)
RedirectLimit == 10

\* new URL(location): throws on a relative reference
newURL(loc) ==
    IF loc.kind = "abs" THEN [ok |-> TRUE, url |-> [host |-> loc.host, path |-> loc.path]]
    ELSE [ok |-> FALSE, url |-> [host |-> "-", path |-> loc.path]]

\* location.startsWith('http') ? location : new URL(location, base).href
resolveLocation(loc, base) ==
    IF loc.kind = "abs" THEN [host |-> loc.host, path |-> loc.path]
    ELSE [host |-> base.host, path |-> loc.path]

Min(a, b) == IF a < b THEN a ELSE b

\* Math.round((downloadedBytes / totalBytes) * 100)
RoundPercent(downloadedBytes, totalBytes) ==
    (200 * downloadedBytes + totalBytes) \div (2 * totalBytes)

\* the progress of a sample while streaming
progressPercentage(impl, downloadedBytes, totalBytes) ==
    IF impl = "curl"
    THEN IF totalBytes > 0 THEN Min(99, RoundPercent(downloadedBytes, totalBytes)) ELSE 50
    ELSE IF totalBytes > 0
         THEN IF 100 * downloadedBytes < totalBytes THEN 1
              ELSE Min(99, RoundPercent(downloadedBytes, totalBytes))
         ELSE Min(95, 10)

\* totalBytes 0 stands for null
NoSample == [progress |-> 0, downloadedBytes |-> 0, totalBytes |-> 0, status |-> "none"]
Sample(p, d, t, s) == [progress |-> p, downloadedBytes |-> d, totalBytes |-> t, status |-> s]

NoTransfer ==
    [impl |-> "none", pc |-> "closed", url |-> [host |-> "h1", path |-> "/a"],
     headUrl |-> [host |-> "h1", path |-> "/a"], headRedirects |-> 0, redirectCount |-> 0,
     totalBytes |-> 0, downloadedBytes |-> 0, pending |-> 0, fileBytes |-> 0, file |-> "none",
     cancelled |-> FALSE, active |-> FALSE, outcome |-> "pending", error |-> "none",
     sample |-> NoSample, again |-> FALSE]

\* the call: curlStyleDownload starts with the HEAD request of getFileSize,
\* downloadSingleRomHTTP with its first sample and the GET request
StartTransfer(impl, u) ==
    [NoTransfer EXCEPT !.impl = impl, !.url = u, !.headUrl = u,
                       !.pc = IF impl = "curl" THEN "head" ELSE "get",
                       !.sample = IF impl = "curl" THEN NoSample
                                  ELSE Sample(0, 0, 0, "downloading")]

\* resolve / reject of the promise: only the first call counts
Settle(x, outcome, error) ==
    IF x.outcome = "pending" THEN [x EXCEPT !.outcome = outcome, !.error = error] ELSE x

\* an exception thrown inside an event callback: nothing catches it, the
\* process ends and the promise is never settled
Uncaught(x) == [x EXCEPT !.pc = "closed", !.outcome = "crashed", !.active = FALSE]

\* performRequest(url) after getFileSize settled
performRequest(x, totalBytes) ==
    [x EXCEPT !.pc = "get", !.totalBytes = totalBytes, !.headRedirects = 0, !.headUrl = x.url]

\* getFileSize: the HEAD response is a redirect with a Location
headRedirect(x, loc) ==
    LET redirectCount == x.headRedirects + 1
    IN IF redirectCount > RedirectLimit THEN performRequest(x, 0)
       ELSE IF ~newURL(loc).ok THEN Uncaught(x)
       ELSE [x EXCEPT !.headUrl = newURL(loc).url, !.headRedirects = redirectCount]

\* getFileSize: a HEAD response that is no redirect
headStatus(x, ok, contentLength) == performRequest(x, IF ok THEN contentLength ELSE 0)

\* getFileSize: request.on('error') and request.on('timeout')
headFailure(x) == performRequest(x, 0)

\* the cancellation check at the head of the response callback
\* (downloadSingleRomHTTP only)
cancelledAtResponse(x) == x.impl = "http" /\ x.cancelled

rejectCancelled(x) == Settle([x EXCEPT !.pc = "closed"], "rejected", "Cancelled")

\* the GET response is a redirect with a Location
getRedirect(x, loc) ==
    IF cancelledAtResponse(x) THEN rejectCancelled(x)
    ELSE IF x.impl = "curl"
    THEN LET redirectCount == x.redirectCount + 1
         IN IF redirectCount > RedirectLimit
            THEN Settle([x EXCEPT !.pc = "closed"], "rejected", "TooManyRedirects")
            ELSE IF ~newURL(loc).ok THEN Uncaught(x)
            ELSE [x EXCEPT !.url = newURL(loc).url, !.redirectCount = redirectCount]
    ELSE \* rom.downloadUrl = redirectUrl; this.downloadSingleRomHTTP(rom)
         [x EXCEPT !.url = resolveLocation(loc, x.url),
                   !.redirectCount = @ + 1,
                   !.sample = Sample(0, 0, 0, "downloading")]

\* the GET response has a status other than 200 and is no redirect
getStatus(x) ==
    IF cancelledAtResponse(x) THEN rejectCancelled(x)
    ELSE Settle([x EXCEPT !.pc = "closed"], "rejected", "HttpStatus")

\* the GET response is 200: the destination file is created and the
\* download is registered in activeDownloads
getOk(x, contentLength) ==
    IF cancelledAtResponse(x) THEN rejectCancelled(x)
    ELSE LET totalBytes == IF x.impl = "curl" /\ x.totalBytes > 0 THEN x.totalBytes
                           ELSE contentLength
         IN [x EXCEPT !.pc = "stream", !.totalBytes = totalBytes,
                      !.file = "open", !.fileBytes = 0, !.pending = 0, !.active = TRUE,
                      !.sample = IF x.impl = "curl"
                                 THEN Sample(0, 0, totalBytes, "downloading") ELSE @]

\* stream.destroy(): what was not yet written is dropped
destroyFile(x) == [x EXCEPT !.pending = 0, !.file = IF @ = "open" THEN "closed" ELSE @]

\* fs.unlink(filepath)
unlink(x) == [x EXCEPT !.file = IF @ \in {"open", "closed"} THEN "removed" ELSE @]

\* response.on('data'); emit: whether the throttle lets a sample through
onData(x, n, emit) ==
    IF x.cancelled THEN destroyFile([x EXCEPT !.pc = "closed"])
    ELSE LET d == x.downloadedBytes + n
         IN [x EXCEPT !.downloadedBytes = d, !.pending = @ + n,
                      !.sample = IF emit
                                 THEN Sample(progressPercentage(x.impl, d, x.totalBytes),
                                             d, x.totalBytes, "downloading")
                                 ELSE @]

\* the write stream closes once the ended stream has written everything
closeIfDrained(x) ==
    [x EXCEPT !.file = IF @ = "open" /\ x.pc = "closed" /\ x.pending = 0 THEN "closed" ELSE @]

\* response.on('end')
onEnd(x) ==
    IF x.impl = "http" /\ x.cancelled
    THEN Settle(unlink([x EXCEPT !.pc = "closed", !.active = FALSE]), "rejected", "Cancelled")
    ELSE Settle(closeIfDrained(
                  [x EXCEPT !.pc = "closed", !.active = FALSE,
                            !.sample = Sample(100, x.downloadedBytes,
                                              IF x.impl = "curl" /\ x.totalBytes > 0
                                              THEN x.totalBytes ELSE x.downloadedBytes,
                                              "complete")]),
                "resolved", "none")

\* response.on('error')
onResponseError(x, error) ==
    Settle(unlink(destroyFile([x EXCEPT !.pc = "closed", !.active = FALSE])), "rejected", error)

\* the write stream's 'error' handler
onFileError(x) ==
    LET x1 == destroyFile([x EXCEPT !.pc = "closed", !.active = FALSE])
    IN Settle(IF x.impl = "http" THEN unlink(x1) ELSE x1, "rejected", "File")

\* request.on('error') and the timeout of the request.  When the response
\* is already streaming, the closing socket makes it emit 'error' (aborted)
onRequestFailure(x, error) ==
    LET x1 == Settle([x EXCEPT !.active = FALSE], "rejected", error)
    IN IF x.pc = "stream" THEN onResponseError(x1, "Aborted") ELSE [x1 EXCEPT !.pc = "closed"]

\* cancelDownload(romName).  An active curl download has its response
\* destroyed by the call itself, so that no event of it follows; an active
\* http download has only its request destroyed, and the response emits
\* 'error' (aborted) when the socket closes.
cancelDownload(x) ==
    LET x1 == [x EXCEPT !.cancelled = TRUE]
        x2 == IF ~x.active THEN x1
              ELSE IF x.impl = "curl"
              THEN unlink(destroyFile([x1 EXCEPT !.pc = "closed", !.active = FALSE]))
              ELSE onResponseError(unlink(destroyFile([x1 EXCEPT !.active = FALSE])), "Aborted")
    IN IF x.impl = "http" THEN [x2 EXCEPT !.sample = Sample(0, 0, 0, "cancelled")] ELSE x2

\* a buffered write reaches the file
onWritten(x) == closeIfDrained([x EXCEPT !.fileBytes = @ + x.pending, !.pending = 0])

\* ---- the events of a Transfer, one action each
Deliver(x) ==
    /\ xfer' = x
    /\ UNCHANGED <<room, oldRoom, isProcessing, downloader, runs, boot, restarts, view, published>>

HeadRedirect(loc) == xfer.pc = "head" /\ Deliver(headRedirect(xfer, loc))

HeadStatus(ok, contentLength) == xfer.pc = "head" /\ Deliver(headStatus(xfer, ok, contentLength))

HeadFailure == xfer.pc = "head" /\ Deliver(headFailure(xfer))

GetRedirect(loc) ==
    /\ xfer.pc = "get"
    /\ xfer.redirectCount < MaxHops
    /\ Deliver(getRedirect(xfer, loc))

GetStatus == xfer.pc = "get" /\ Deliver(getStatus(xfer))

GetOk(contentLength) == xfer.pc = "get" /\ Deliver(getOk(xfer, contentLength))

Data(n, emit) ==
    /\ xfer.pc = "stream"
    /\ xfer.downloadedBytes + n <= MaxBody
    /\ Deliver(onData(xfer, n, emit))

End == xfer.pc = "stream" /\ Deliver(onEnd(xfer))

ResponseError == xfer.pc = "stream" /\ Deliver(onResponseError(xfer, "Stream"))

RequestFailure(error) == xfer.pc \in {"get", "stream"} /\ Deliver(onRequestFailure(xfer, error))

Written == xfer.file = "open" /\ xfer.pending > 0 /\ Deliver(onWritten(xfer))

FileError == xfer.file = "open" /\ xfer.pending > 0 /\ Deliver(onFileError(xfer))

\* a client cancels a rom once
CancelDownload ==
    /\ xfer.pc \in {"head", "get", "stream"}
    /\ ~xfer.again
    /\ Deliver(cancelDownload(xfer))

\* the next call for the same rom on the same downloader, for the URL the rom
\* has by then.  cancelledDownloads still holds what cancelDownload added:
\* clearCancelledStatus has no caller
startAgain(x) ==
    LET y == [StartTransfer(x.impl, IF x.impl = "curl" THEN x.headUrl ELSE x.url)
                 EXCEPT !.cancelled = x.cancelled, !.again = TRUE,
                        !.file = x.file, !.fileBytes = x.fileBytes]
    IN IF x.impl = "http" /\ x.cancelled
       THEN Settle([y EXCEPT !.pc = "closed", !.sample = x.sample], "rejected", "Cancelled")
       ELSE y

\* the worker got the outcome of a Transfer that had been cancelled, and the
\* rom is retried or enqueued again
Retransfer ==
    /\ xfer.impl # "none" /\ ~xfer.again /\ xfer.cancelled
    /\ xfer.pc = "closed" /\ ~(xfer.file = "open" /\ xfer.pending > 0)
    /\ xfer.outcome \in {"rejected", "resolved"}
    /\ Deliver(startAgain(xfer))

InitTransfer ==
    /\ room = EmptyRoom
    /\ oldRoom = EmptyRoom
    /\ isProcessing = FALSE
    /\ downloader = "none"
    /\ runs = <<>>
    /\ boot = [loading |-> FALSE, file |-> FALSE, stopping |-> FALSE, disk |-> EmptyRoom]
    /\ restarts = 0
    /\ view = NoView
    /\ published = NoBroadcast
    /\ \E impl \in {"curl", "http"}, u \in Urls : xfer = StartTransfer(impl, u)

NextTransfer ==
    \/ \E loc \in Locations : HeadRedirect(loc)
    \/ \E ok \in BOOLEAN, len \in ContentLengths : HeadStatus(ok, len)
    \/ HeadFailure
    \/ \E loc \in Locations : GetRedirect(loc)
    \/ GetStatus
    \/ \E len \in ContentLengths : GetOk(len)
    \/ \E n \in 1..MaxChunk, emit \in BOOLEAN : Data(n, emit)
    \/ End
    \/ ResponseError
    \/ \E error \in {"Request", "Timeout"} : RequestFailure(error)
    \/ Written
    \/ FileError
    \/ CancelDownload
    \/ Retransfer

SpecTransfer == InitTransfer /\ [][NextTransfer]_vars

\* ---------------------------------------------------------- specification
\* a process started without a session file
Init ==
    /\ room = EmptyRoom
    /\ oldRoom = EmptyRoom
    /\ isProcessing = FALSE
    /\ downloader = "none"
    /\ runs = <<>>
    /\ boot = [loading |-> FALSE, file |-> FALSE, stopping |-> FALSE, disk |-> EmptyRoom]
    /\ restarts = 0
    /\ view = NoView
    /\ xfer = NoTransfer
    /\ published = NoBroadcast

Next ==
    \/ \E sel \in Selections, ruleset \in Rulesets : Enqueue(sel, ruleset)
    \/ \E n \in Names : Retry(n)
    \/ \E n \in Names : Remove(n)
    \/ JoinUserRoom
    \/ \E j \in 1..MaxRuns, ok \in BOOLEAN : InitDone(j, ok)
    \/ \E j \in 1..MaxRuns, found \in BOOLEAN : ResolveDone(j, found)
    \/ \E j \in 1..MaxRuns, ok \in BOOLEAN, page \in {"blank", "listing"} : TransferDone(j, ok, page)
    \/ \E j \in 1..MaxRuns, ok \in BOOLEAN : OrganizeDone(j, ok)
    \/ Sigterm

Spec == Init /\ [][Next]_vars

\* Requests that arrive while the SIGINT handler awaits shutdown(): the
\* clients enqueue one rom at a time, without a ruleset.
NextShutdown ==
    \/ \E c \in Catalog : Enqueue(<<c>>, "none")
    \/ \E j \in 1..MaxRuns, ok \in BOOLEAN : InitDone(j, ok)
    \/ \E j \in 1..MaxRuns, found \in BOOLEAN : ResolveDone(j, found)
    \/ \E j \in 1..MaxRuns, ok \in BOOLEAN, page \in {"blank", "listing"} : TransferDone(j, ok, page)
    \/ Sigint
    \/ ShutdownDone

SpecShutdown == Init /\ [][NextShutdown]_vars

\* Requests that arrive while a new process still awaits loadSessions: the
\* clients enqueue one rom at a time, without a ruleset.
NextBoot ==
    \/ \E c \in Catalog : Enqueue(<<c>>, "none")
    \/ \E j \in 1..MaxRuns, ok \in BOOLEAN : InitDone(j, ok)
    \/ \E j \in 1..MaxRuns, found \in BOOLEAN : ResolveDone(j, found)
    \/ \E j \in 1..MaxRuns, ok \in BOOLEAN, page \in {"blank", "listing"} : TransferDone(j, ok, page)
    \/ Restart
    \/ LoadSessions

SpecBoot == Init /\ [][NextBoot]_vars

\* GET /api/rooms: the room with its computed status
GetRooms ==
    /\ view' = [event |-> "rooms", status |-> computeRoomStatus(room),
                derived |-> computeRoomStatus(room)]
    /\ UNCHANGED <<room, oldRoom, isProcessing, downloader, runs, boot, restarts, xfer, published>>

\* GET /api/user-room: the room as it is stored
GetUserRoom ==
    /\ view' = [event |-> "user-room", status |-> storedStatus(room),
                derived |-> computeRoomStatus(room)]
    /\ UNCHANGED <<room, oldRoom, isProcessing, downloader, runs, boot, restarts, xfer, published>>

\* what socket.on('joinUserRoom') sends last to the joining client
JoinView(r) ==
    LET status == computeRoomStatus(r)
    IN IF status \in {"downloading", "ready"}
       THEN [event |-> "downloadStateRestored", status |-> status, derived |-> status]
       ELSE IF status = "complete"
       THEN [event |-> "downloadStateRestored", status |-> storedStatus(r), derived |-> status]
       ELSE [event |-> "roomUpdate", status |-> status, derived |-> status]

\* socket.on('joinUserRoom'), with what the joining client receives
JoinUserRoomSeen ==
    /\ ~boot.loading
    /\ LeaveSeen(joinUserRoom(Now, UsedIds), JoinView(room))

\* The snapshots clients read while roms are enqueued one at a time,
\* without a ruleset, and transferred.
NextObserve ==
    \/ \E c \in Catalog : Enqueue(<<c>>, "none")
    \/ \E j \in 1..MaxRuns, ok \in BOOLEAN : InitDone(j, ok)
    \/ \E j \in 1..MaxRuns, found \in BOOLEAN : ResolveDone(j, found)
    \/ \E j \in 1..MaxRuns, ok \in BOOLEAN, page \in {"blank", "listing"} : TransferDone(j, ok, page)
    \/ GetRooms
    \/ GetUserRoom
    \/ JoinUserRoomSeen

SpecObserve == Init /\ [][NextObserve]_vars

\* The derived status as a function of the statuses in the queue: the room
\* holds any queue of up to MaxStatusLen roms with the statuses the server
\* knows, and a client reads it.
AllStatuses == {"available", "downloading", "pending", "success", "complete",
                "failed", "error", "needs-rescrape"}
StatusQueues == UNION {[1..n -> AllStatuses] : n \in 0..MaxStatusLen}

InitStatus ==
    /\ \E q \in StatusQueues :
           room = [EmptyRoom EXCEPT !.roms =
                      [k \in 1..Len(q) |-> [id |-> 0, name |-> "a", url |-> TRUE, status |-> q[k]]]]
    /\ oldRoom = EmptyRoom
    /\ isProcessing = FALSE
    /\ downloader = "none"
    /\ runs = <<>>
    /\ boot = [loading |-> FALSE, file |-> FALSE, stopping |-> FALSE, disk |-> EmptyRoom]
    /\ restarts = 0
    /\ view = NoView
    /\ xfer = NoTransfer
    /\ published = NoBroadcast

NextStatus == GetRooms

SpecStatus == InitStatus /\ [][NextStatus]_vars

\* ----------------------------------------------------------------- claims
Downloading(roms) == {k \in 1..Len(roms) : roms[k].status = "downloading"}
Available(roms) == {k \in 1..Len(roms) : roms[k].status = "available"}

\* C1: at every instant at most one Item of the room has status
\* 'downloading', whatever the interleaving of enqueue, retry, remove, join
\* and restart with the worker's steps.
C1_AtMostOneDownloading == Cardinality(Downloading(room.roms)) <= 1

\* the runs that are inside downloadSingleRom
InFlight == {j \in 1..Len(runs) : runs[j].pc \in {"resolve", "transfer"}}

\* C2: at most one Transfer is in flight at any instant, and startProcessing
\* called while a run has not finished (awaiting init included) changes
\* nothing: it starts no run and no Transfer.
C2_SingleTransfer ==
    /\ Cardinality(InFlight) <= 1
    /\ Len(runs) > 0 => startProcessing(Now, UsedIds) = Now

\* the worker is set up and no call of startProcessing is unfinished: no
\* worker step is enabled, and only a further request can start one
WorkerIdle == runs = <<>> /\ downloader \in {"blank", "listing"} /\ restarts = 0

\* every name has one entry at most
DistinctNames(roms) == \A k, m \in 1..Len(roms) : roms[k].name = roms[m].name => k = m

\* C3: every Item that gets status 'available' is eventually picked by the
\* worker and reaches a terminal status without a further client request.
\* Stated on finite runs: once the worker is idle, no Item is left
\* 'available' (an idle worker takes no step by itself).  Queues in which
\* a name occurs twice are left to C5 and C6.
C3_NoItemLeftAvailable ==
    WorkerIdle /\ DistinctNames(room.roms) => Available(room.roms) = {}

\* the names that have an entry with status 'available' or 'downloading'
QueuedNames(roms) == {roms[k].name : k \in Available(roms) \cup Downloading(roms)}
EntriesOf(roms, n) == {k \in 1..Len(roms) : roms[k].name = n}
NamesOf(sel) == {sel[i].name : i \in 1..Len(sel)}

\* C4: enqueueing a name that has an entry with status 'available' or
\* 'downloading' adds no entry for it, whatever else the request lists; a
\* request that lists only such names leaves the queue, its length and every
\* status in it, as it was.
C4_ReenqueueAddsNothing ==
    \A sel \in Selections, ruleset \in Rulesets :
        LET out == enqueue(Now, UsedIds, sel, ruleset)
        IN /\ \A n \in QueuedNames(room.roms) :
                  Cardinality(EntriesOf(out.room.roms, n)) = Cardinality(EntriesOf(room.roms, n))
           /\ NamesOf(sel) \subseteq QueuedNames(room.roms) =>
                  /\ out.code = 200
                  /\ out.room.roms = room.roms
                  /\ out.runs = runs

\* a rom is transferred, another waits in the queue, and a request that
\* lists both is answered 200 and leaves the queue as it is
C4_Witness ==
    /\ Len(room.roms) = 2
    /\ room.roms[1].status = "downloading"
    /\ room.roms[2].status = "available"
    /\ room.roms[1].name # room.roms[2].name
    /\ LET sel == <<[name |-> room.roms[2].name, url |-> TRUE],
                    [name |-> room.roms[1].name, url |-> TRUE]>>
           out == enqueue(Now, UsedIds, sel, "none")
       IN out.code = 200 /\ out.room.roms = room.roms

Terminal == {"success", "failed", "needs-rescrape"}

\* C5: enqueueing a name whose entry is terminal appends a new 'available'
\* entry, and the worker transfers that entry.  Stated on the enqueue step
\* of an idle worker with nothing else to do: the appended entry is picked
\* by the run the request starts, so it is not left 'available' with that
\* run over.
C5_RequeuedEntryPicked ==
    [][(/\ WorkerIdle
        /\ Available(room.roms) = {}
        /\ Len(room'.roms) = Len(room.roms) + 1
        /\ EntriesOf(room.roms, room'.roms[Len(room'.roms)].name) # {}
        /\ \A k \in EntriesOf(room.roms, room'.roms[Len(room'.roms)].name) :
               room.roms[k].status \in Terminal)
       => ~(room'.roms[Len(room'.roms)].status = "available" /\ runs' = <<>>)]_vars

\* C6: no two entries with status 'available' or 'downloading' share a name
C6_QueuedNamesDistinct ==
    \A k, m \in Available(room.roms) \cup Downloading(room.roms) :
        room.roms[k].name = room.roms[m].name => k = m

\* the step leaves run j inside downloadSingleRom for a rom it has just
\* marked 'downloading'
Marked(j) ==
    /\ j \in 1..Len(runs')
    /\ runs'[j].pc \in {"resolve", "transfer"}
    /\ \/ j > Len(runs)
       \/ runs[j].pc = "init"
       \/ Len(runs'[j].avail) < Len(runs[j].avail)

\* C7: whenever the worker marks an Item 'downloading', no entry before it
\* in the queue has status 'available' at that moment.
C7_MarksEarliestAvailable ==
    [][\A j \in 1..MaxRuns :
          Marked(j) => \A m \in 1..(runs'[j].romIndex - 1) : room'.roms[m].status # "available"]_vars

\* C8: an Item that retry resets goes behind the Items that are 'available'
\* at that time: no step takes an entry from a terminal-failed status to
\* 'downloading' while an entry that was 'available' before the step is
\* still 'available' after it.
C8_RetriedGoesBehind ==
    [][\A k \in 1..Len(room.roms) :
          (/\ Len(room'.roms) = Len(room.roms)
           /\ room.roms[k].status \in RetryableStatuses
           /\ room'.roms[k].status = "downloading")
          => ~\E m \in 1..Len(room.roms) :
                 room.roms[m].status = "available" /\ room'.roms[m].status = "available"]_vars

\* C9: retry(name) answers 404 for a name without entry and 400 for an
\* entry that is 'available' or 'downloading', and leaves the room and the
\* worker as they were in both cases; when it answers 200 the entry was
\* terminal-failed, and every entry that was not waiting in the queue, this
\* one apart, keeps its status.
C9_RetryOnlyTerminalFailed ==
    \A n \in Names :
        LET romIndex == FindIndex(room.roms, n)
            out == retry(Now, UsedIds, n)
        IN /\ romIndex = 0 => out = [Now EXCEPT !.code = 404]
           /\ (romIndex # 0 /\ room.roms[romIndex].status \in {"available", "downloading"})
                  => out = [Now EXCEPT !.code = 400]
           /\ out.code \in {200, 400, 404}
           /\ out.code # 200 => out.room = room
           /\ out.code = 200 =>
                  /\ room.roms[romIndex].status \in RetryableStatuses
                  /\ Len(out.room.roms) = Len(room.roms)
                  /\ \A k \in (1..Len(room.roms)) \ {romIndex} :
                         room.roms[k].status # "available"
                             => out.room.roms[k].status = room.roms[k].status

\* one rom is transferred and the other name has no entry: retry of the
\* first is answered 400, retry of the second 404
C9_Witness ==
    /\ Len(room.roms) = 1
    /\ room.roms[1].status = "downloading"
    /\ \A n \in Names :
           retry(Now, UsedIds, n).code = IF n = room.roms[1].name THEN 400 ELSE 404

\* C10: retry(name) on an Item with status 'needs-rescrape' that has no
\* resolved downloadUrl does not reset the Item: it keeps its status.
C10_UnresolvedNotReset ==
    \A n \in Names :
        LET romIndex == FindIndex(room.roms, n)
        IN (/\ romIndex # 0
            /\ room.roms[romIndex].status = "needs-rescrape"
            /\ ~room.roms[romIndex].url)
           => retry(Now, UsedIds, n).room.roms[romIndex].status = "needs-rescrape"

\* C11: remove(name) is answered 400 when an entry of that name is
\* 'downloading' and 404 when the name has no entry, and leaves the room and
\* the worker as they were in both cases.
C11_RemoveRejected ==
    \A n \in Names :
        LET out == remove(Now, n)
        IN /\ EntriesOf(room.roms, n) = {} => out = [Now EXCEPT !.code = 404]
           /\ EntriesOf(room.roms, n) \cap Downloading(room.roms) # {}
                  => out = [Now EXCEPT !.code = 400]
           /\ out.code \in {200, 400, 404}
           /\ out.code # 200 => out.room = room

\* one rom is transferred and the other name has no entry: removal of the
\* first is answered 400, removal of the second 404
C11_Witness ==
    /\ Len(room.roms) = 1
    /\ room.roms[1].status = "downloading"
    /\ \A n \in Names :
           remove(Now, n).code = IF n = room.roms[1].name THEN 400 ELSE 404

\* the runs that hold an Item between its mark 'downloading' and the record
\* of its terminal status
InHand == {j \in 1..Len(runs) : runs[j].pc \in {"resolve", "transfer", "organize"}}

\* C12: an Item is never removed from the queue while its Transfer is in
\* flight: no step that shortens the queue takes away an entry of the name
\* a run has in hand (the entry in hand is the first one of its name).
C12_NoRemovalInFlight ==
    [][Len(room'.roms) < Len(room.roms) =>
          \A j \in InHand :
              Cardinality(EntriesOf(room'.roms, Head(runs[j].avail).name))
                  = Cardinality(EntriesOf(room.roms, Head(runs[j].avail).name))]_vars

\* C13: no Item whose downloadUrl is unset has status 'downloading'
C13_DownloadingHasUrl ==
    \A k \in Downloading(room.roms) : room.roms[k].url

\* the room after run j's Transfer failed with `error`: the catch of
\* startProcessing, and the rest of the loop up to its next await
FailureStep(j, error) ==
    Continue(handleDownloadError(room, Head(runs[j].avail), error), downloader, runs[j], OtherIds(j))

AfterFailure(j, error) == FailureStep(j, error).room

Organizing == {j \in 1..Len(runs) : runs[j].pc = "organize"}

\* the step of run j when the organizer settles with result org
OrganizeStep(j, org) ==
    Continue(Success(room, runs[j], org), downloader, runs[j], OtherIds(j))

C17_DerivedStatus ==
    view.event = "rooms" =>
        view.status =
            CASE Len(room.roms) = 0 -> "idle"
              [] Len(room.roms) > 0 /\ Downloading(room.roms) # {} -> "downloading"
              [] /\ Len(room.roms) > 0 /\ Downloading(room.roms) = {}
                 /\ \E k \in 1..Len(room.roms) : room.roms[k].status \in {"available", "pending"}
                     -> "ready"
              [] OTHER -> "complete"

\* a queue with a 'pending' rom and none 'downloading' or 'available' was
\* read as 'ready'
C17_Witness ==
    /\ view.event = "rooms"
    /\ view.status = "ready"
    /\ \E k \in 1..Len(room.roms) : room.roms[k].status = "pending"
    /\ Downloading(room.roms) = {}
    /\ Available(room.roms) = {}

\* C18: every room snapshot a client reads carries the status derived from
\* the Items of that snapshot.
C18_SnapshotStatusDerived == view.event # "none" => view.status = view.derived

\* C19: within one process, whenever an Item is 'downloading' currentRom is
\* that Item's name, and whenever no run has an Item in hand currentRom is
\* null.
C19_CurrentRomNamesTransfer ==
    restarts = 0 =>
        /\ \A k \in Downloading(room.roms) : room.currentRom = room.roms[k].name
        /\ InHand = {} => room.currentRom = NoName

\* a status change that is a path of state-machine edges: 'available' to
\* 'downloading', 'downloading' to a terminal status and, when the step is a
\* retry request, a terminal-failed status to 'available'
StatusPath(s, t, retried) ==
    \/ s = t
    \/ s = "available" /\ t \in {"downloading"} \cup Terminal
    \/ s = "downloading" /\ t \in Terminal
    \/ retried /\ s \in RetryableStatuses
               /\ t \in {"available", "downloading"} \cup Terminal

\* C20: in every step of a running process that removes no Item, each Item's
\* status changes only along edges of the state machine, the edge back to
\* 'available' only in a retry request.
C20_StatusEdgesOnly ==
    [][(restarts' = restarts /\ Len(room'.roms) >= Len(room.roms)) =>
         \A k \in 1..Len(room.roms) :
            StatusPath(room.roms[k].status, room'.roms[k].status,
                       \E n \in Names : Retry(n))]_vars

\* ------------------------------------------------------- inactivity window
\* more than oneHour passes in which nothing writes lastActivity
HourPasses ==
    /\ ~boot.loading /\ ~boot.stopping
    /\ room.lastActivity = "fresh"
    /\ room' = [room EXCEPT !.lastActivity = "old"]
    /\ UNCHANGED <<oldRoom, isProcessing, downloader, runs, boot, restarts, view, xfer, published>>

\* saveSessions() writes the session file: the 30 s timer, or a call that a
\* handler or the worker made without awaiting it
SaveSessions ==
    /\ ~boot.loading /\ ~boot.stopping
    /\ boot' = [boot EXCEPT !.file = TRUE, !.disk = [room EXCEPT !.roms = StripIds(@)]]
    /\ UNCHANGED <<room, oldRoom, isProcessing, downloader, runs, restarts, view, xfer, published>>

\* the server module declares no userRooms
userRoomsDeclared == FALSE

\* cleanupInactiveSessions(): the for loop over userRooms.entries()
cleanupInactiveSessions(r) ==
    IF ~userRoomsDeclared THEN [threw |-> TRUE, room |-> r]
    ELSE IF r.lastActivity = "old" /\ storedStatus(r) # "downloading"
    THEN [threw |-> FALSE, room |-> ClearedRoom]
    ELSE [threw |-> FALSE, room |-> r]

\* an exception nothing catches ends the process; the next process starts
\* from the session file as it was last written
Crash ==
    /\ restarts' = restarts + 1
    /\ room' = IF boot.file THEN [boot.disk EXCEPT !.roms = LoadedRoms(@)] ELSE EmptyRoom
    /\ oldRoom' = EmptyRoom
    /\ isProcessing' = FALSE
    /\ downloader' = "none"
    /\ runs' = <<>>
    /\ published' = NoBroadcast
    /\ UNCHANGED <<boot, view, xfer>>

\* setInterval(cleanupInactiveSessions, oneHour) fires
IdleSweep ==
    /\ restarts < MaxRestarts
    /\ ~boot.loading /\ ~boot.stopping
    /\ LET out == cleanupInactiveSessions(room)
       IN IF out.threw THEN Crash
          ELSE /\ room' = out.room
               /\ UNCHANGED <<oldRoom, isProcessing, downloader, runs, boot, restarts, view, xfer, published>>

NextIdle ==
    \/ \E c \in Catalog : Enqueue(<<c>>, "none")
    \/ \E j \in 1..MaxRuns, ok \in BOOLEAN : InitDone(j, ok)
    \/ \E j \in 1..MaxRuns, found \in BOOLEAN : ResolveDone(j, found)
    \/ \E j \in 1..MaxRuns, ok \in BOOLEAN, page \in {"blank", "listing"} : TransferDone(j, ok, page)
    \/ JoinUserRoom
    \/ HourPasses
    \/ SaveSessions
    \/ IdleSweep

SpecIdle == Init /\ [][NextIdle]_vars

\* C21: while an Item is 'downloading', a firing of the periodic sweep leaves
\* the Items, the history and currentRom as they were, and a client's join
\* removes no Item and leaves the history and currentRom as they were.
C21_IdleCheckSparesDownloading ==
    [][Downloading(room.roms) # {} =>
         /\ restarts' # restarts =>
               /\ Items(room'.roms) = Items(room.roms)
               /\ room'.downloadHistory = room.downloadHistory
               /\ room'.currentRom = room.currentRom
         /\ JoinUserRoom =>
               /\ ItemNames(room'.roms) = ItemNames(room.roms)
               /\ room'.downloadHistory = room.downloadHistory
               /\ room'.currentRom = room.currentRom]_vars

\* C22: with the worker idle, no Item 'downloading' and lastActivity older
\* than one hour, a firing of the periodic sweep or a client's join leaves
\* the room without Items and without history.
C22_IdleCheckClears ==
    [][(/\ runs = <<>>
        /\ Len(room.roms) > 0
        /\ Downloading(room.roms) = {}
        /\ room.lastActivity = "old"
        /\ restarts' # restarts \/ JoinUserRoom)
       => room'.roms = <<>> /\ room'.downloadHistory = <<>>]_vars

\* no event of the Transfer is still to come
Quiescent == xfer.pc = "closed" /\ ~(xfer.file = "open" /\ xfer.pending > 0)

\* a file exists at the destination path
FileAtDestination == xfer.file \in {"open", "closed"}

\* the status processDownloadItem leaves on the Item whose Transfer this is:
\* 'downloading' while it awaits the promise, 'success' when the promise
\* resolves, the status of handleDownloadError when it rejects
ItemStatus ==
    LET rom == [id |-> 0, name |-> "a", url |-> TRUE, status |-> "downloading"]
        r == [EmptyRoom EXCEPT !.roms = <<rom>>, !.currentRom = "a"]
    IN IF xfer.outcome = "resolved" THEN "success"
       ELSE IF xfer.outcome = "rejected" THEN handleDownloadError(r, rom, ErrOther).roms[1].status
       ELSE "downloading"

\* C23: once a Transfer that was cancelled in flight has no event left (the
\* process still running), no file is at the destination path and its Item
\* is 'failed'.
C23_CancelLeavesNoFile ==
    (xfer.cancelled /\ Quiescent /\ xfer.outcome # "crashed")
    => (~FileAtDestination /\ ItemStatus = "failed")

\* C24: a Transfer that was cancelled in flight does not run out of events
\* (the process still running) with its promise pending or resolved: the
\* promise is rejected, which is what lets the worker go on to the next Item.
C24_CancelSettles ==
    (xfer.cancelled /\ Quiescent /\ xfer.outcome # "crashed") => xfer.outcome = "rejected"

\* C25: no Transfer follows more than 10 redirects of its GET request.
C25_AtMostTenRedirects == xfer.redirectCount <= RedirectLimit

\* C26: a GET redirect with a relative Location continues the Transfer with
\* the Location resolved against the URL that was requested.
C26_RelativeLocationResolved ==
    [][\A loc \in Locations :
          (loc.kind = "rel" /\ ~xfer.cancelled /\ xfer.redirectCount < RedirectLimit
             /\ GetRedirect(loc))
          => /\ xfer'.url = [host |-> xfer.url.host, path |-> loc.path]
             /\ xfer'.pc = "get"
             /\ xfer'.outcome = "pending"]_vars

\* C27: whatever answers the HEAD request, the Transfer stays alive and goes
\* on to its GET request.
C27_HeadNeverEndsTransfer ==
    [][xfer.pc = "head" => (xfer'.pc \in {"head", "get"} /\ xfer'.outcome = "pending")]_vars

\* C28: a progress sample of a streaming Transfer with known total size has
\* percent min(99, round(downloaded / total * 100)).
C28_StreamingPercent ==
    (xfer.sample.status = "downloading" /\ xfer.sample.totalBytes > 0)
    => xfer.sample.progress =
          Min(99, RoundPercent(xfer.sample.downloadedBytes, xfer.sample.totalBytes))

\* C29: once a resolved Transfer has no event left, its last sample is the
\* final one and its downloadedBytes is the size of the file at the
\* destination path.
C29_FinalSampleIsFileSize ==
    (xfer.outcome = "resolved" /\ Quiescent)
    => /\ xfer.sample.status = "complete"
       /\ FileAtDestination
       /\ xfer.sample.downloadedBytes = xfer.fileBytes

\* C30: once a Transfer that was rejected has no event left, no file is at
\* the destination path.
C30_ErrorLeavesNoFile ==
    (xfer.outcome = "rejected" /\ Quiescent) => ~FileAtDestination

\* C31: when the promise of a Transfer is resolved, the destination file is
\* closed and holds every byte that was received.
C31_SuccessAfterFileClosed ==
    xfer.outcome = "resolved"
    => /\ xfer.file = "closed"
       /\ xfer.pending = 0
       /\ xfer.fileBytes = xfer.downloadedBytes

\* C32: every step of a running process that changes the Items of the room
\* (their names, their order or a status) sends a roomUpdate to the shared
\* room, and the last one it sends shows the Items as the step leaves them.
C32_MutationBroadcast ==
    [][(restarts' = restarts /\ Items(room'.roms) # Items(room.roms))
       => /\ Len(published') > 1
          /\ published'[Len(published')] = Items(room'.roms)]_vars

\* The requests of the clients that are connected and the worker, in one
\* process: no client joins and the process is not stopped.
NextQueue ==
    \/ \E sel \in Selections, ruleset \in Rulesets : Enqueue(sel, ruleset)
    \/ \E n \in Names : Retry(n)
    \/ \E n \in Names : Remove(n)
    \/ \E j \in 1..MaxRuns, ok \in BOOLEAN : InitDone(j, ok)
    \/ \E j \in 1..MaxRuns, found \in BOOLEAN : ResolveDone(j, found)
    \/ \E j \in 1..MaxRuns, ok \in BOOLEAN, page \in {"blank", "listing"} : TransferDone(j, ok, page)
    \/ \E j \in 1..MaxRuns, ok \in BOOLEAN : OrganizeDone(j, ok)

SpecQueue == Init /\ [][NextQueue]_vars

\* C33: in the roomUpdate events as the subscribers receive them, an Item
\* that an event shows with a terminal status and the event before it showed
\* with another status was shown 'downloading' by that event.  Two events
\* in a row that list the same names list the same Items, since every
\* request that adds or removes an Item sends an event.
C33_DownloadingBeforeTerminal ==
    \A i \in 1..(Len(published) - 1) :
        ItemNames(published[i]) = ItemNames(published[i + 1]) =>
            \A k \in 1..Len(published[i]) :
                (/\ published[i + 1][k].status \in Terminal
                 /\ published[i][k].status # published[i + 1][k].status)
                => published[i][k].status = "downloading"

\* C34: when a process ends and the next one has loaded the session file,
\* every Item that was saved unfinished ('available', 'pending' or
\* 'downloading') without a downloadUrl is 'needs-rescrape'.
C34_ReloadMarksUnresolved ==
    [][restarts' # restarts =>
          \A k \in 1..Len(room'.roms) :
              (~room'.roms[k].url /\ room.roms[k].status \in ActiveStatuses)
              => room'.roms[k].status = "needs-rescrape"]_vars

\* the step in which run j records the success of its Transfer
RecordsSuccess(j) ==
    \/ TransferDone(j, TRUE, "listing") /\ runs[j].ruleset = "none"
    \/ \E ok \in BOOLEAN : OrganizeDone(j, ok)

\* C35: a step that leaves an Item 'success' which was not 'success' before
\* is the step of a run that has that Item's name in hand; and the step in
\* which a run records the success of its Transfer does not leave the Item
\* it had marked 'downloading' in that status.
C35_SuccessIsOfTransferredItem ==
    [][/\ Len(room'.roms) = Len(room.roms) =>
            \A k \in 1..Len(room.roms) :
                (room.roms[k].status # "success" /\ room'.roms[k].status = "success")
                => \E j \in InHand : Head(runs[j].avail).name = room.roms[k].name
       /\ \A j \in 1..MaxRuns :
            RecordsSuccess(j) =>
                \A k \in 1..Len(room.roms) :
                    (/\ room.roms[k].name = Head(runs[j].avail).name
                     /\ room.roms[k].status = "downloading")
                    => room'.roms[k].status # "downloading"]_vars

\* C36: a Transfer that starts after the cancellation of an earlier Transfer
\* of the same rom is not rejected as cancelled and is not left without
\* outcome by the cancellation check of its data handler.
C36_CancelOnlyCurrentTransfer ==
    xfer.again =>
        /\ ~(xfer.outcome = "rejected" /\ xfer.error = "Cancelled")
        /\ ~(Quiescent /\ xfer.outcome = "pending")

\* C37: an enqueue request does not change the ruleset the worker will read
\* for the Items that were queued before it and are still waiting: while an
\* Item stays 'available' over the request, roomData.ruleset, which
\* processDownloadItem reads when it takes the Item up, stays as it was.
C37_EnqueueKeepsRuleset ==
    [][\A sel \in Selections, ruleset \in Rulesets :
          (/\ Enqueue(sel, ruleset)
           /\ \E k \in 1..Len(room.roms) :
                  room.roms[k].status = "available" /\ room'.roms[k].status = "available")
          => room'.ruleset = room.ruleset]_vars

\* the downloader's init failed and no call of startProcessing is unfinished
InitFailed == downloader = "uninit" /\ runs = <<>>

\* C38: when init fails, the step leaves every Item as it was and
\* isProcessing false; and while the downloader is left without a successful
\* init, no step that removes nothing puts an Item into 'downloading' or a
\* terminal status: the call of startProcessing in it awaits init first.
C38_InitFailureRetried ==
    [][/\ \A j \in 1..MaxRuns :
            InitDone(j, FALSE) => (Items(room'.roms) = Items(room.roms) /\ ~isProcessing')
       /\ (InitFailed /\ Len(room'.roms) >= Len(room.roms)) =>
            \A k \in 1..Len(room'.roms) :
                (k > Len(room.roms) \/ room'.roms[k].status # room.roms[k].status)
                => room'.roms[k].status = "available"]_vars

\* C39: when the startup load of the session file completes, every Item that
\* an enqueue request had accepted before is still in the room the handlers
\* read, and no run of the worker is left with another room object than the
\* one the handlers read.
C39_LoadKeepsAcceptedItems ==
    [][(boot.loading /\ ~boot'.loading) =>
          /\ \A k \in 1..Len(room.roms) :
                 \E m \in 1..Len(room'.roms) : room'.roms[m].name = room.roms[k].name
          /\ \A j \in 1..Len(runs') : ~runs'[j].old]_vars

\* handleDownloadError for the rom at the head of the queue, once
HandleError(error) ==
    /\ Len(room.roms) > 0
    /\ room.roms[1].status = "downloading"
    /\ room.downloadHistory = <<>>
    /\ room' = handleDownloadError(room, Ref(room.roms[1]), error)
    /\ published' = Publish(<<Items(room'.roms)>>)
    /\ UNCHANGED <<oldRoom, isProcessing, downloader, runs, boot, restarts, view, xfer>>

NextError == \E error \in ErrorMessages : HandleError(error)

\* handleDownloadError as a function of the queue and of the error message
SpecError == InitStatus /\ [][NextError]_vars

\* C40: the history entry that handleDownloadError appends carries the
\* status it sets on the Item, whatever the message of the error.
C40_HistoryStatusIsItemStatus ==
    [][\A error \in ErrorMessages :
          HandleError(error) =>
              room'.downloadHistory[Len(room'.downloadHistory)].status = room'.roms[1].status]_vars

====
